---------------------------- MODULE Spec2Model ----------------------------
(***************************************************************************)
(* A model of hack_vm.py, the translator from Hack virtual machine code    *)
(* to Hack assembly: the line parser (HackParser), the code generator      *)
(* (HackCodeGenerator), the assembling and linking pipeline and main.      *)
(*                                                                         *)
(* Text is kept as text: program lines, tokens, labels and assembly lines  *)
(* are TLA+ strings, taken apart with Len and SubSeq and built with \o.    *)
(***************************************************************************)
EXTENDS Integers, Sequences, FiniteSets, TLC

VARIABLES
  pieces,     \* parser run: the tokens and separators the input line was built from
  line,       \* parser run: the input line handed to ParseCommand
  result,     \* parser run: what ParseCommand gave ("pending" before the call)
  argv,       \* main: sys.argv
  fs,         \* main: the file system: the directory's listing, the files' lines
  programs,   \* main: the (program_name, program_lines) pairs read so far
  pc,         \* main: where the run is
  cursor,     \* main: the position of the running loop (os.listdir, or the map
              \*       of LinkPrograms), counted from 1
  commands,   \* main: ParseProgram's program_commands of the program at cursor
  chunks,     \* main: GenerateAsm's list of lists for the program at cursor
  raised,     \* main: the exception on its way up, if any
  assembled,  \* main: what AssembleProgram returned for each program so far
  stdout,     \* main: what was printed, in order
  out_asm,    \* main: the file out.asm
  gen_in,     \* generator run: the command, file name, function name and number
  gen_out,    \* generator run: the assembly lines GenerateAsm gave
  cpu_in,     \* execution: the VM lines, the line run from, the memory at the start
  cpu_stage,  \* execution: "source", "parsed", "generated" or "loaded"
  cpu_commands, \* execution: the commands parsed from the lines
  cpu_chunks, \* execution: the assembly generated for each command
  cpu_rom,    \* execution: the instructions of the generated assembly
  cpu_symbols,\* execution: the ROM address of each label of the assembly
  cpu_reg,    \* execution: the registers A and D and the program counter
  cpu_ram     \* execution: the data memory

parseVars == <<pieces, line, result>>

genVars == <<gen_in, gen_out>>

cpuVars ==
  <<cpu_in, cpu_stage, cpu_commands, cpu_chunks, cpu_rom, cpu_symbols, cpu_reg,
    cpu_ram>>

mainVars ==
  <<argv, fs, programs, pc, cursor, commands, chunks, raised, assembled, stdout,
    out_asm>>

vars == <<parseVars, mainVars, genVars, cpuVars>>

\* what a run of main leaves alone
notMain == <<parseVars, genVars, cpuVars>>

\* what a parser run leaves alone
notParse == <<mainVars, genVars, cpuVars>>

\* what a generator run leaves alone
notGen == <<parseVars, mainVars, cpuVars>>

\* what an execution of generated code leaves alone
notCpu == <<parseVars, mainVars, genVars>>

-----------------------------------------------------------------------------
(* Characters and Python's string methods                                  *)

Char(s, i) == SubSeq(s, i, i)

Digits == {"0", "1", "2", "3", "4", "5", "6", "7", "8", "9"}

Lower == {"a", "b", "c", "d", "e", "f", "g", "h", "i", "j", "k", "l", "m",
          "n", "o", "p", "q", "r", "s", "t", "u", "v", "w", "x", "y", "z"}

Upper == {"A", "B", "C", "D", "E", "F", "G", "H", "I", "J", "K", "L", "M",
          "N", "O", "P", "Q", "R", "S", "T", "U", "V", "W", "X", "Y", "Z"}

\* the characters str.strip() and str.split() treat as whitespace
Whitespace == {" ", "\t", "\n", "\r", "\f"}

RECURSIVE LStrip(_)
LStrip(s) ==
  IF Len(s) > 0 /\ Char(s, 1) \in Whitespace
  THEN LStrip(SubSeq(s, 2, Len(s)))
  ELSE s

RECURSIVE RStrip(_)
RStrip(s) ==
  IF Len(s) > 0 /\ Char(s, Len(s)) \in Whitespace
  THEN RStrip(SubSeq(s, 1, Len(s) - 1))
  ELSE s

\* str.strip()
Strip(s) == RStrip(LStrip(s))

\* the length of the first whitespace-free run of s, which starts with one
TokenLen(s) ==
  CHOOSE n \in 1..Len(s) :
    /\ \A j \in 1..n : Char(s, j) \notin Whitespace
    /\ n = Len(s) \/ Char(s, n + 1) \in Whitespace

\* str.split() with no separator: the maximal whitespace-free runs, in order
RECURSIVE Split(_)
Split(s) ==
  LET t == LStrip(s)
  IN  IF t = "" THEN <<>>
      ELSE LET n == TokenLen(t)
           IN  <<SubSeq(t, 1, n)>> \o Split(SubSeq(t, n + 1, Len(t)))

\* str.isdigit(): not empty and every character a digit
IsDigit(s) == Len(s) > 0 /\ \A i \in 1..Len(s) : Char(s, i) \in Digits

\* the positions at which the comment marker "//" starts
CommentStarts(s) == {i \in 1..Len(s) - 1 : SubSeq(s, i, i + 1) = "//"}

\* s.index("//"), 0-based; -1 stands for the ValueError of a missing marker
IndexOfComment(s) ==
  IF CommentStarts(s) = {} THEN -1
  ELSE (CHOOSE i \in CommentStarts(s) : \A j \in CommentStarts(s) : i <= j) - 1

DigitValue(c) == CHOOSE d \in 0..9 : ToString(d) = c

\* the value of a string of digits
RECURSIVE DecimalValue(_)
DecimalValue(s) ==
  IF Len(s) = 0 THEN 0
  ELSE 10 * DecimalValue(SubSeq(s, 1, Len(s) - 1)) + DigitValue(Char(s, Len(s)))

\* the ValueError that leaves a method as an exception
ValueError == [type |-> "ValueError"]

\* int(s) of a token (no whitespace, and no sign where the parser calls it):
\* it raises ValueError unless every character is a digit
IntRaises(s) == ~IsDigit(s)

int(s) == DecimalValue(s)

-----------------------------------------------------------------------------
(* The command classes                                                     *)

\* the False a Parse*Command method returns when the line is not its command
False == [type |-> "False"]

SimpleCommand(name) == [type |-> name]

PushCommand(segment, index) ==
  [type |-> "PushCommand", segment |-> segment, index |-> index]

PopCommand(segment, index) ==
  [type |-> "PopCommand", segment |-> segment, index |-> index]

LabelCommand(label_name) == [type |-> "LabelCommand", label_name |-> label_name]

GotoCommand(label_name) == [type |-> "GotoCommand", label_name |-> label_name]

IfGotoCommand(label_name) == [type |-> "IfGotoCommand", label_name |-> label_name]

FunctionCommand(function_name, local_variables) ==
  [type |-> "FunctionCommand", function_name |-> function_name,
   local_variables |-> local_variables]

CallCommand(function_name, arguments) ==
  [type |-> "CallCommand", function_name |-> function_name,
   arguments |-> arguments]

ErrorCommand(text) == [type |-> "ErrorCommand", line |-> text]

-----------------------------------------------------------------------------
(* HackParser                                                              *)

SEGMENT_NAMES ==
  <<"argument", "local", "static", "constant", "this", "that", "pointer", "temp">>

SegmentNameSet == {SEGMENT_NAMES[i] : i \in 1..Len(SEGMENT_NAMES)}

COMMAND_PARSE_ORDER ==
  <<"AddCommand", "SubCommand", "NegCommand", "EqCommand", "GtCommand",
    "LtCommand", "AndCommand", "OrCommand", "NotCommand", "PushCommand",
    "PopCommand", "LabelCommand", "GotoCommand", "IfGotoCommand",
    "FunctionCommand", "CallCommand", "ReturnCommand", "EmptyCommand",
    "ErrorCommand">>

LabelFirst == Lower \cup Upper \cup {"_", ".", ":"}

LabelRest == LabelFirst \cup Digits

\* the lengths n of the prefixes of s that [a-zA-Z_\.:][a-zA-Z0-9_\.:]* matches
LabelPrefixes(s) ==
  {n \in 1..Len(s) :
     /\ Char(s, 1) \in LabelFirst
     /\ \A i \in 2..n : Char(s, i) \in LabelRest}

\* re.match(_RE_LABEL, s): the pattern matches at the start of s; nothing
\* anchors it at the end
RE_LABEL(s) == LabelPrefixes(s) # {}

\* the lengths n of the prefixes of s that \d+ matches
NumberPrefixes(s) == {n \in 1..Len(s) : \A i \in 1..n : Char(s, i) \in Digits}

\* re.match(_RE_NUMBER, s)
RE_NUMBER(s) == NumberPrefixes(s) # {}

TrimProgramLine(s) ==
  IF IndexOfComment(s) >= 0
  THEN Strip(SubSeq(s, 1, IndexOfComment(s)))
  ELSE Strip(s)

ParseSimpleCommand(s, command_name, constructor) ==
  IF s = command_name THEN SimpleCommand(constructor) ELSE False

ParsePushCommand(s) ==
  LET parts == Split(s)
  IN  IF /\ Len(parts) = 3
         /\ parts[1] = "push"
         /\ parts[2] \in SegmentNameSet
         /\ IsDigit(parts[3])
      THEN PushCommand(parts[2], int(parts[3]))
      ELSE False

\* ParsePopCommand without its test parts[1] != "constant"
ParsePopCommandAnySegment(s) ==
  LET parts == Split(s)
  IN  IF /\ Len(parts) = 3
         /\ parts[1] = "pop"
         /\ parts[2] \in SegmentNameSet
         /\ IsDigit(parts[3])
      THEN PopCommand(parts[2], int(parts[3]))
      ELSE False

ParsePopCommand(s) ==
  LET parts == Split(s)
  IN  IF /\ Len(parts) = 3
         /\ parts[1] = "pop"
         /\ parts[2] \in SegmentNameSet
         /\ parts[2] # "constant"
         /\ IsDigit(parts[3])
      THEN PopCommand(parts[2], int(parts[3]))
      ELSE False

ParseGenericLabelCommand(s, command_name, constructor) ==
  LET parts == Split(s)
  IN  IF /\ Len(parts) = 2
         /\ parts[1] = command_name
         /\ RE_LABEL(parts[2])
      THEN [type |-> constructor, label_name |-> parts[2]]
      ELSE False

\* int(parts[2]) is evaluated before the constructor is called: its
\* ValueError leaves the method, and ParseCommand, as an exception
ParseGenericFunctionCommand(s, command_name, constructor) ==
  LET parts == Split(s)
  IN  IF Len(parts) # 3 THEN False
      ELSE IF /\ Len(parts) = 3
              /\ parts[1] = command_name
              /\ RE_LABEL(parts[2])
              /\ RE_NUMBER(parts[3])
      THEN IF IntRaises(parts[3]) THEN ValueError
           ELSE IF constructor = "FunctionCommand"
                THEN FunctionCommand(parts[2], int(parts[3]))
                ELSE CallCommand(parts[2], int(parts[3]))
      ELSE False

ParseReturnCommand(s) ==
  IF s = "return" THEN SimpleCommand("ReturnCommand") ELSE False

\* getattr(HackParser, "Parse" + command.__name__)(line)
ParseAs(command, s) ==
  CASE command = "AddCommand" -> ParseSimpleCommand(s, "add", "AddCommand")
    [] command = "SubCommand" -> ParseSimpleCommand(s, "sub", "SubCommand")
    [] command = "NegCommand" -> ParseSimpleCommand(s, "neg", "NegCommand")
    [] command = "EqCommand" -> ParseSimpleCommand(s, "eq", "EqCommand")
    [] command = "GtCommand" -> ParseSimpleCommand(s, "gt", "GtCommand")
    [] command = "LtCommand" -> ParseSimpleCommand(s, "lt", "LtCommand")
    [] command = "AndCommand" -> ParseSimpleCommand(s, "and", "AndCommand")
    [] command = "OrCommand" -> ParseSimpleCommand(s, "or", "OrCommand")
    [] command = "NotCommand" -> ParseSimpleCommand(s, "not", "NotCommand")
    [] command = "PushCommand" -> ParsePushCommand(s)
    [] command = "PopCommand" -> ParsePopCommand(s)
    [] command = "LabelCommand" ->
         ParseGenericLabelCommand(s, "label", "LabelCommand")
    [] command = "GotoCommand" ->
         ParseGenericLabelCommand(s, "goto", "GotoCommand")
    [] command = "IfGotoCommand" ->
         ParseGenericLabelCommand(s, "if-goto", "IfGotoCommand")
    [] command = "FunctionCommand" ->
         ParseGenericFunctionCommand(s, "function", "FunctionCommand")
    [] command = "CallCommand" ->
         ParseGenericFunctionCommand(s, "call", "CallCommand")
    [] command = "ReturnCommand" -> ParseReturnCommand(s)
    [] command = "EmptyCommand" -> ParseSimpleCommand(s, "", "EmptyCommand")
    [] command = "ErrorCommand" -> ErrorCommand(s)

\* the for loop of ParseCommand from position i of _COMMAND_PARSE_ORDER on:
\* the first result that is not False is returned; an exception ends the loop
RECURSIVE ParseLoop(_, _)
ParseLoop(i, s) ==
  IF i > Len(COMMAND_PARSE_ORDER) THEN [type |-> "None"]
  ELSE LET r == ParseAs(COMMAND_PARSE_ORDER[i], s)
       IN  IF r # False THEN r ELSE ParseLoop(i + 1, s)

ParseCommand(text) == ParseLoop(1, TrimProgramLine(text))

-----------------------------------------------------------------------------
(* HackCodeGenerator: a command, the name of its file, the name of its     *)
(* enclosing function and its line number give a list of assembly lines.   *)
(* str(value) and "%d" % value of an integer are ToString(value); where    *)
(* the code passes either a number or a name to str(), the caller here     *)
(* passes the text.                                                        *)

SEGMENT_MAPPING ==
  [sp |-> 0, temp |-> 5, pointer |-> 3, argument |-> 2, local |-> 1,
   this |-> 3, that |-> 4, static |-> 16]

\* seq * k of a Python list
RECURSIVE Repeat(_, _)
Repeat(seq, k) == IF k <= 0 THEN <<>> ELSE seq \o Repeat(seq, k - 1)

\* sum(chunks, []) of a list of lists
RECURSIVE Sum(_)
Sum(lists) == IF Len(lists) = 0 THEN <<>> ELSE Head(lists) \o Sum(Tail(lists))

\* _ApplyBinaryTemplate without the case for "-": D (the top) first
ApplyBinaryTemplateTopFirst(op) ==
  <<"@SP", "M=M-1", "A=M", "D=M", "A=A-1", "M=D" \o op \o "M">>

ApplyBinaryTemplate(op) ==
  <<"@SP", "M=M-1", "A=M", "D=M", "A=A-1",
    IF op # "-" THEN "M=D" \o op \o "M" ELSE "M=M-D">>

ApplyUnaryTemplate(op) == <<"@SP", "A=M", "A=A-1", "M=" \o op \o "M">>

\* _ApplyComparisonTemplate with "%s%d$branch" and "%s%d$end": no separator
\* between the file name and the number
ApplyComparisonTemplateNoSeparator(op, name, number) ==
  LET branch_label == name \o ToString(number) \o "$branch"
      end_label == name \o ToString(number) \o "$end"
  IN  <<"@SP", "M=M-1", "A=M", "D=M", "A=A-1", "D=D-M",
        "@" \o branch_label, "D;" \o op,
        "@SP", "A=M-1", "M=0",
        "@" \o end_label, "0;JMP",
        "(" \o branch_label \o ")",
        "@SP", "A=M-1", "M=0", "M=!M",
        "(" \o end_label \o ")">>

ApplyComparisonTemplate(op, name, number) ==
  LET branch_label == name \o "$" \o ToString(number) \o "$branch"
      end_label == name \o "$" \o ToString(number) \o "$end"
  IN  <<"@SP", "M=M-1", "A=M", "D=M", "A=A-1", "D=D-M",
        "@" \o branch_label, "D;" \o op,
        "@SP", "A=M-1", "M=0",
        "@" \o end_label, "0;JMP",
        "(" \o branch_label \o ")",
        "@SP", "A=M-1", "M=0", "M=!M",
        "(" \o end_label \o ")">>

ApplyPushTemplate == <<"@SP", "A=M", "M=D", "@SP", "M=M+1">>

ApplyPushConstantTemplate(value) ==
  <<"@" \o ToString(value), "D=A">> \o ApplyPushTemplate

\* value: the text str() gives, of an address or of a static's name
ApplyPushDirectTemplate(value) == <<"@" \o value, "D=M">> \o ApplyPushTemplate

ApplyPushIndirectTemplate(segment_base, index) ==
  <<"@" \o ToString(segment_base), "D=M", "@" \o ToString(index), "A=D+A", "D=M">>
    \o ApplyPushTemplate

ApplyPopDirectTemplate(value) ==
  <<"@SP", "M=M-1", "A=M", "D=M", "@" \o value, "M=D">>

\* _ApplyPopIndirectTemplate without the index added to the base
ApplyPopIndirectTemplateBaseOnly(segment_base, index) ==
  <<"@" \o ToString(segment_base), "D=M",
    "@13", "M=D", "@SP", "M=M-1", "A=M", "D=M", "@13", "A=M", "M=D">>

ApplyPopIndirectTemplate(segment_base, index) ==
  <<"@" \o ToString(segment_base), "D=M", "@" \o ToString(index), "D=D+A",
    "@13", "M=D", "@SP", "M=M-1", "A=M", "D=M", "@13", "A=M", "M=D">>

FromMemoryToD(address) == <<"@" \o ToString(address), "D=M">>

FromMemoryDToD == <<"A=D", "D=M">>

FromDToMemory(address) == <<"@" \o ToString(address), "M=D">>

FromDToMemoryIndirect(address) == <<"@" \o ToString(address), "A=M", "M=D">>

FromMemoryToMemory(from_address, to_address) ==
  Sum(<<FromMemoryToD(from_address), FromDToMemory(to_address)>>)

AddConstantToD(constant) ==
  IF constant < 0
  THEN <<"@" \o ToString(-constant), "D=D-A">>
  ELSE <<"@" \o ToString(constant), "D=D+A">>

PopToD == <<"@SP", "M=M-1", "A=M", "D=M">>

\* constant: the text str() gives, of a number or of a label
PushConstant(constant) ==
  <<"@" \o constant, "D=A", "@SP", "M=M+1", "A=M-1", "M=D">>

PushFromMemory(address) ==
  Sum(<<FromMemoryToD(address), <<"@SP", "M=M+1", "A=M-1", "M=D">> >>)

CreateLabel(label_name) == <<"(" \o label_name \o ")">>

GotoLabel(label_name) == <<"@" \o label_name, "0;JMP">>

GotoLocationFromMemory(address) == <<"@" \o ToString(address), "A=M", "0;JMP">>

GenerateAsmPushCommand(command, name, function_name, number) ==
  IF command.segment = "constant"
  THEN ApplyPushConstantTemplate(command.index)
  ELSE IF command.segment \in {"temp", "pointer"}
  THEN ApplyPushDirectTemplate(
         ToString(SEGMENT_MAPPING[command.segment] + command.index))
  ELSE IF command.segment \in {"argument", "local", "this", "that"}
  THEN ApplyPushIndirectTemplate(SEGMENT_MAPPING[command.segment], command.index)
  ELSE ApplyPushDirectTemplate(name \o "." \o ToString(command.index))

GenerateAsmPopCommand(command, name, function_name, number) ==
  IF command.segment \in {"temp", "pointer"}
  THEN ApplyPopDirectTemplate(
         ToString(SEGMENT_MAPPING[command.segment] + command.index))
  ELSE IF command.segment \in {"argument", "local", "this", "that"}
  THEN ApplyPopIndirectTemplate(SEGMENT_MAPPING[command.segment], command.index)
  ELSE ApplyPopDirectTemplate(name \o "." \o ToString(command.index))

GenerateAsmLabelCommand(command, name, function_name, number) ==
  <<"(" \o function_name \o "$" \o command.label_name \o ")">>

\* GenerateAsmGotoCommand with the label scoped by the file name
GenerateAsmGotoCommandFileScoped(command, name, function_name, number) ==
  <<"@" \o name \o "$" \o command.label_name, "0;JMP">>

GenerateAsmGotoCommand(command, name, function_name, number) ==
  <<"@" \o function_name \o "$" \o command.label_name, "0;JMP">>

GenerateAsmIfGotoCommand(command, name, function_name, number) ==
  <<"@SP", "M=M-1", "A=M", "D=M",
    "@" \o function_name \o "$" \o command.label_name, "D;JNE">>

GenerateAsmFunctionCommand(command, name, function_name, number) ==
  Sum(<<CreateLabel(command.function_name),
        Repeat(PushConstant(ToString(0)), command.local_variables)>>)

\* GenerateAsmCallCommand with the new ARG at SP - arguments - 4
GenerateAsmCallCommandShortFrame(command, name, function_name, number) ==
  LET goto_name == command.function_name
      return_address == name \o "$" \o ToString(number) \o "$return-address"
  IN  Sum(<<PushConstant(return_address),
            PushFromMemory(SEGMENT_MAPPING["local"]),
            PushFromMemory(SEGMENT_MAPPING["argument"]),
            PushFromMemory(SEGMENT_MAPPING["this"]),
            PushFromMemory(SEGMENT_MAPPING["that"]),
            FromMemoryToD(SEGMENT_MAPPING["sp"]),
            AddConstantToD(-command.arguments - 4),
            FromDToMemory(SEGMENT_MAPPING["argument"]),
            FromMemoryToMemory(SEGMENT_MAPPING["sp"], SEGMENT_MAPPING["local"]),
            GotoLabel(goto_name),
            CreateLabel(return_address)>>)

GenerateAsmCallCommand(command, name, function_name, number) ==
  LET goto_name == command.function_name
      return_address == name \o "$" \o ToString(number) \o "$return-address"
  IN  Sum(<<PushConstant(return_address),
            PushFromMemory(SEGMENT_MAPPING["local"]),
            PushFromMemory(SEGMENT_MAPPING["argument"]),
            PushFromMemory(SEGMENT_MAPPING["this"]),
            PushFromMemory(SEGMENT_MAPPING["that"]),
            FromMemoryToD(SEGMENT_MAPPING["sp"]),
            AddConstantToD(-command.arguments - 5),
            FromDToMemory(SEGMENT_MAPPING["argument"]),
            FromMemoryToMemory(SEGMENT_MAPPING["sp"], SEGMENT_MAPPING["local"]),
            GotoLabel(goto_name),
            CreateLabel(return_address)>>)

\* GenerateAsmReturnCommand fetching the return address only after the result
\* is stored
GenerateAsmReturnCommandLateAddress(command, name, function_name, number) ==
  Sum(<<FromMemoryToMemory(SEGMENT_MAPPING["local"], 13),
        PopToD,
        FromDToMemoryIndirect(SEGMENT_MAPPING["argument"]),
        FromMemoryToD(13),
        AddConstantToD(-5),
        FromMemoryDToD,
        FromDToMemory(14),
        FromMemoryToD(SEGMENT_MAPPING["argument"]),
        AddConstantToD(1),
        FromDToMemory(SEGMENT_MAPPING["sp"]),
        FromMemoryToD(13),
        AddConstantToD(-1),
        FromMemoryDToD,
        FromDToMemory(SEGMENT_MAPPING["that"]),
        FromMemoryToD(13),
        AddConstantToD(-2),
        FromMemoryDToD,
        FromDToMemory(SEGMENT_MAPPING["this"]),
        FromMemoryToD(13),
        AddConstantToD(-3),
        FromMemoryDToD,
        FromDToMemory(SEGMENT_MAPPING["argument"]),
        FromMemoryToD(13),
        AddConstantToD(-4),
        FromMemoryDToD,
        FromDToMemory(SEGMENT_MAPPING["local"]),
        GotoLocationFromMemory(14)>>)

GenerateAsmReturnCommand(command, name, function_name, number) ==
  Sum(<<FromMemoryToMemory(SEGMENT_MAPPING["local"], 13),
        FromMemoryToD(13),
        AddConstantToD(-5),
        FromMemoryDToD,
        FromDToMemory(14),
        PopToD,
        FromDToMemoryIndirect(SEGMENT_MAPPING["argument"]),
        FromMemoryToD(SEGMENT_MAPPING["argument"]),
        AddConstantToD(1),
        FromDToMemory(SEGMENT_MAPPING["sp"]),
        FromMemoryToD(13),
        AddConstantToD(-1),
        FromMemoryDToD,
        FromDToMemory(SEGMENT_MAPPING["that"]),
        FromMemoryToD(13),
        AddConstantToD(-2),
        FromMemoryDToD,
        FromDToMemory(SEGMENT_MAPPING["this"]),
        FromMemoryToD(13),
        AddConstantToD(-3),
        FromMemoryDToD,
        FromDToMemory(SEGMENT_MAPPING["argument"]),
        FromMemoryToD(13),
        AddConstantToD(-4),
        FromMemoryDToD,
        FromDToMemory(SEGMENT_MAPPING["local"]),
        GotoLocationFromMemory(14)>>)

\* getattr(HackCodeGenerator, "GenerateAsm" + command.__class__.__name__)
GenerateAsmCommand(command, name, function_name, number) ==
  CASE command.type = "AddCommand" -> ApplyBinaryTemplate("+")
    [] command.type = "SubCommand" -> ApplyBinaryTemplate("-")
    [] command.type = "NegCommand" -> ApplyUnaryTemplate("-")
    [] command.type = "EqCommand" -> ApplyComparisonTemplate("JEQ", name, number)
    [] command.type = "GtCommand" -> ApplyComparisonTemplate("JLT", name, number)
    [] command.type = "LtCommand" -> ApplyComparisonTemplate("JGT", name, number)
    [] command.type = "AndCommand" -> ApplyBinaryTemplate("&")
    [] command.type = "OrCommand" -> ApplyBinaryTemplate("|")
    [] command.type = "NotCommand" -> ApplyUnaryTemplate("!")
    [] command.type = "PushCommand" ->
         GenerateAsmPushCommand(command, name, function_name, number)
    [] command.type = "PopCommand" ->
         GenerateAsmPopCommand(command, name, function_name, number)
    [] command.type = "LabelCommand" ->
         GenerateAsmLabelCommand(command, name, function_name, number)
    [] command.type = "GotoCommand" ->
         GenerateAsmGotoCommand(command, name, function_name, number)
    [] command.type = "IfGotoCommand" ->
         GenerateAsmIfGotoCommand(command, name, function_name, number)
    [] command.type = "FunctionCommand" ->
         GenerateAsmFunctionCommand(command, name, function_name, number)
    [] command.type = "CallCommand" ->
         GenerateAsmCallCommand(command, name, function_name, number)
    [] command.type = "ReturnCommand" ->
         GenerateAsmReturnCommand(command, name, function_name, number)
    [] command.type = "EmptyCommand" -> <<>>

\* the line number the bootstrap call is generated with
BootstrapNumber == 1000000

GenerateBootstrapAsm ==
  Sum(<<<<"@256", "D=A", "@0", "M=D">>,
        GenerateAsmCallCommand(CallCommand("Sys.init", 0), "Sys", "", BootstrapNumber)>>)

-----------------------------------------------------------------------------
(* The pipeline: ParseProgram .. AttachBootstrapCode                       *)

\* map(HackParser.ParseCommand, program_lines)
MapParseCommand(program_lines) ==
  [i \in 1..Len(program_lines) |-> ParseCommand(program_lines[i])]

\* the errors list ParseProgram collects: one entry "%s.%d: %s" for each
\* ErrorCommand, in line order, with the 1-based line number
RECURSIVE ParseErrors(_, _, _)
ParseErrors(program_commands, program_name, line_number) ==
  IF line_number >= Len(program_commands) THEN <<>>
  ELSE LET command == program_commands[line_number + 1]
       IN  (IF command.type = "ErrorCommand"
            THEN <<program_name \o "." \o ToString(line_number + 1) \o ": "
                     \o command.line>>
            ELSE <<>>)
           \o ParseErrors(program_commands, program_name, line_number + 1)

\* os.linesep.join(errors)
RECURSIVE LinesepJoin(_)
LinesepJoin(lines) ==
  IF Len(lines) = 0 THEN ""
  ELSE IF Len(lines) = 1 THEN lines[1]
  ELSE lines[1] \o "\n" \o LinesepJoin(Tail(lines))

\* the exception of ParseProgram, with the errors list its message is made of
VMError(errors) ==
  [type |-> "VMError", message |-> "Error: " \o LinesepJoin(errors),
   errors |-> errors]

NoException == [type |-> "", message |-> "", errors |-> <<>>]

RECURSIVE ParentFunctionsFrom(_, _, _)
ParentFunctionsFrom(program_commands, i, current_function) ==
  IF i > Len(program_commands) THEN <<>>
  ELSE LET command == program_commands[i]
           current == IF command.type = "FunctionCommand"
                      THEN command.function_name ELSE current_function
       IN  <<current>> \o ParentFunctionsFrom(program_commands, i + 1, current)

IdentifyParentFunctions(program_commands) ==
  ParentFunctionsFrom(program_commands, 1, "DEFAULT_FUNCTION")

\* zip(commands, [name] * n, parent functions, range(n))
DecorateCommands(program_commands, program_name) ==
  LET parents == IdentifyParentFunctions(program_commands)
  IN  [i \in 1..Len(program_commands) |->
         <<program_commands[i], program_name, parents[i], i - 1>>]

GenerateAsm(decorated_program_commands) ==
  [i \in 1..Len(decorated_program_commands) |->
     LET c == decorated_program_commands[i]
     IN  GenerateAsmCommand(c[1], c[2], c[3], c[4])]

\* the chunks concatenated last to first
RECURSIVE FlattenAsmBackwards(_)
FlattenAsmBackwards(asm_chunks) ==
  IF Len(asm_chunks) = 0 THEN <<>>
  ELSE FlattenAsmBackwards(Tail(asm_chunks)) \o Head(asm_chunks)

FlattenAsm(asm_chunks) == Sum(asm_chunks)

AttachBootstrapCode(program_asm) == Sum(<<GenerateBootstrapAsm, program_asm>>)

-----------------------------------------------------------------------------
(* main: one run of the command, from sys.argv and a file system.          *)

MaxLines == 2

\* the lines a source file is written from
LineChoices ==
  {"push constant 7\n", "eq\n", "  // only a comment\n", "pop foo 2\n",
   "call f 1x\n"}

RECURSIVE SeqsUpTo(_, _)
SeqsUpTo(S, n) ==
  IF n = 0 THEN {<<>>}
  ELSE LET shorter == SeqsUpTo(S, n - 1)
       IN  shorter \cup {Append(q, x) : q \in {r \in shorter : Len(r) = n - 1}, x \in S}

FooContents == SeqsUpTo(LineChoices, MaxLines)

BarContents ==
  {<<>>,
   <<"function Bar.f 1\n", "label L\n", "push local 0\n", "if-goto L\n", "return\n">>,
   <<"lt\n", "\n", "call Bar.f 0\n", "gt\n">>,
   <<"push constant 1\n", "pop\n", "push\n">>,
   <<"add\n", "function Bar.f 1x\n">>}

\* what os.listdir gives for the directory "prog"
Listings ==
  {<<>>, <<"notes.txt">>, <<"Foo.vm">>, <<"Bad.vm">>,
   <<"Foo.vm", "Bar.vm">>, <<"Bar.vm", "Foo.vm">>,
   <<"Bad.vm", "Foo.vm">>, <<"Foo.vm", "notes.txt", "Bad.vm">>}

\* the paths argv[1] may name: three files, a directory, nothing
Paths == {"Foo.vm", "Bad.vm", "notes.txt", "prog", "missing"}

IsFile(path) == path \in {"Foo.vm", "Bad.vm", "notes.txt", "Bar.vm"}

IsDir(path) == path = "prog"

\* open(file_name, "r") raises IOError for Bad.vm
Readable(file_name) == file_name # "Bad.vm"

EndsWith(s, suffix) ==
  Len(s) >= Len(suffix) /\ SubSeq(s, Len(s) - Len(suffix) + 1, Len(s)) = suffix

\* s[:-3]
DropLast3(s) == SubSeq(s, 1, Len(s) - 3)

Usage == "Please enter a file or directory."

\* error.message of the IOError that open() raises: the exception is built
\* from (errno, strerror), which leaves its message attribute empty
IOErrorMessage == ""

Printed(from, text) == [from |-> from, text |-> text]

NoFile == [written |-> FALSE, text |-> <<>>]

MainInit ==
  /\ \E path \in Paths :
       argv \in {<<"hack_vm.py">>, <<"hack_vm.py", path>>,
                 <<"hack_vm.py", path, "extra">>}
  /\ \E listing \in Listings, foo \in FooContents, bar \in BarContents,
        writable \in BOOLEAN :
       /\ fs = [listing |-> listing,
                lines |-> [n \in {"Foo.vm", "Bar.vm", "notes.txt"} |->
                             IF n = "Foo.vm" THEN foo
                             ELSE IF n = "Bar.vm" THEN bar
                             ELSE <<"not a program\n">>],
                writable |-> writable]
       \* what the run never looks at is left at one value
       /\ (Len(argv) # 2 \/ ~IsDir(argv[2])) => listing = <<>>
       /\ Len(argv) # 2 => (foo = <<>> /\ bar = <<>> /\ writable)
       /\ (Len(argv) = 2 /\ argv[2] \in {"Bad.vm", "notes.txt", "missing"})
            => (foo = <<>> /\ bar = <<>>)
       /\ (\A i \in 1..Len(listing) : listing[i] # "Foo.vm")
            => (foo = <<>> \/ (Len(argv) = 2 /\ argv[2] = "Foo.vm"))
       /\ (\A i \in 1..Len(listing) : listing[i] # "Bar.vm") => bar = <<>>
  /\ programs = <<>>
  /\ pc = "start"
  /\ cursor = 1
  /\ commands = <<>>
  /\ chunks = <<>>
  /\ raised = NoException
  /\ assembled = <<>>
  /\ stdout = <<>>
  /\ out_asm = NoFile

\* if len(sys.argv) != 2: print the usage and return
MainUsage ==
  /\ pc = "start"
  /\ Len(argv) # 2
  /\ stdout' = Append(stdout, Printed("usage", Usage))
  /\ pc' = "done"
  /\ UNCHANGED <<argv, fs, programs, cursor, commands, chunks, raised, assembled,
                 out_asm>>
  /\ UNCHANGED notMain

\* the body of both reading loops: open the file, read its lines, append the
\* program; an IOError is printed and the run goes on
ReadProgram(file_name) ==
  IF ~EndsWith(file_name, ".vm")
  THEN UNCHANGED <<programs, stdout>>
  ELSE IF Readable(file_name)
  THEN /\ programs' = Append(programs, <<DropLast3(file_name), fs.lines[file_name]>>)
       /\ UNCHANGED stdout
  ELSE /\ stdout' = Append(stdout, Printed("IOError on read", IOErrorMessage))
       /\ UNCHANGED programs

\* os.path.isfile(sys.argv[1])
MainReadFile ==
  /\ pc = "start"
  /\ Len(argv) = 2
  /\ IsFile(argv[2])
  /\ ReadProgram(argv[2])
  /\ pc' = "link"
  /\ UNCHANGED <<argv, fs, cursor, commands, chunks, raised, assembled, out_asm>>
  /\ UNCHANGED notMain

\* os.path.isdir(sys.argv[1]): the loop over os.listdir starts
MainListDir ==
  /\ pc = "start"
  /\ Len(argv) = 2
  /\ ~IsFile(argv[2])
  /\ IsDir(argv[2])
  /\ pc' = "listdir"
  /\ cursor' = 1
  /\ UNCHANGED <<argv, fs, programs, commands, chunks, raised, assembled, stdout,
                 out_asm>>
  /\ UNCHANGED notMain

\* one turn of the loop over os.listdir(sys.argv[1])
MainReadDirEntry ==
  /\ pc = "listdir"
  /\ cursor <= Len(fs.listing)
  /\ ReadProgram(fs.listing[cursor])
  /\ cursor' = cursor + 1
  /\ UNCHANGED <<argv, fs, pc, commands, chunks, raised, assembled, out_asm>>
  /\ UNCHANGED notMain

\* the loop over os.listdir is over
MainListDirDone ==
  /\ pc = "listdir"
  /\ cursor > Len(fs.listing)
  /\ pc' = "link"
  /\ cursor' = 1
  /\ UNCHANGED <<argv, fs, programs, commands, chunks, raised, assembled, stdout,
                 out_asm>>
  /\ UNCHANGED notMain

\* sys.argv[1] is neither a file nor a directory: nothing is read
MainNoPath ==
  /\ pc = "start"
  /\ Len(argv) = 2
  /\ ~IsFile(argv[2])
  /\ ~IsDir(argv[2])
  /\ pc' = "link"
  /\ UNCHANGED <<argv, fs, programs, cursor, commands, chunks, raised, assembled,
                 stdout, out_asm>>
  /\ UNCHANGED notMain

\* LinkPrograms: map(lambda p: AssembleProgram(p[1], p[0]), programs) reaches
\* the next program, and ParseProgram maps ParseCommand over its lines
ParseProgramMap ==
  /\ pc = "link"
  /\ cursor <= Len(programs)
  /\ commands' = MapParseCommand(programs[cursor][2])
  /\ pc' = "parsed"
  /\ UNCHANGED <<argv, fs, programs, cursor, chunks, raised, assembled, stdout,
                 out_asm>>
  /\ UNCHANGED notMain

\* a ParseCommand call of the map raised: the ValueError leaves ParseProgram,
\* AssembleProgram and LinkPrograms
ParseProgramValueError ==
  /\ pc = "parsed"
  /\ \E i \in 1..Len(commands) : commands[i] = ValueError
  /\ raised' = [type |-> "ValueError", message |-> "", errors |-> <<>>]
  /\ pc' = "raised"
  /\ UNCHANGED <<argv, fs, programs, cursor, commands, chunks, assembled, stdout,
                 out_asm>>
  /\ UNCHANGED notMain

\* ParseProgram found ErrorCommands: it raises VMError with all of them
ParseProgramRaise ==
  /\ pc = "parsed"
  /\ \A i \in 1..Len(commands) : commands[i] # ValueError
  /\ Len(ParseErrors(commands, programs[cursor][1], 0)) > 0
  /\ raised' = VMError(ParseErrors(commands, programs[cursor][1], 0))
  /\ pc' = "raised"
  /\ UNCHANGED <<argv, fs, programs, cursor, commands, chunks, assembled, stdout,
                 out_asm>>
  /\ UNCHANGED notMain

\* ParseProgram returns program_commands; AssembleProgram decorates them and
\* generates their assembly
AssembleProgramGenerate ==
  /\ pc = "parsed"
  /\ \A i \in 1..Len(commands) : commands[i] # ValueError
  /\ Len(ParseErrors(commands, programs[cursor][1], 0)) = 0
  /\ chunks' = GenerateAsm(DecorateCommands(commands, programs[cursor][1]))
  /\ pc' = "generated"
  /\ UNCHANGED <<argv, fs, programs, cursor, commands, raised, assembled, stdout,
                 out_asm>>
  /\ UNCHANGED notMain

\* AssembleProgram returns FlattenAsm(...): the map has one more element
AssembleProgramReturn ==
  /\ pc = "generated"
  /\ assembled' = Append(assembled, FlattenAsm(chunks))
  /\ cursor' = cursor + 1
  /\ pc' = "link"
  /\ UNCHANGED <<argv, fs, programs, commands, chunks, raised, stdout, out_asm>>
  /\ UNCHANGED notMain

\* LinkPrograms returns sum(map(...), [])
LinkPrograms == Sum(assembled)

\* program_asm = AttachBootstrapCode(LinkPrograms(programs)), then out.asm is
\* opened for writing and written
MainWrite ==
  /\ pc = "link"
  /\ cursor > Len(programs)
  /\ fs.writable
  /\ out_asm' = [written |-> TRUE, text |-> AttachBootstrapCode(LinkPrograms)]
  /\ pc' = "done"
  /\ UNCHANGED <<argv, fs, programs, cursor, commands, chunks, raised, assembled,
                 stdout>>
  /\ UNCHANGED notMain

\* open("out.asm", "w") raises IOError: except IOError prints its message
MainWriteFails ==
  /\ pc = "link"
  /\ cursor > Len(programs)
  /\ ~fs.writable
  /\ stdout' = Append(stdout, Printed("IOError on write", IOErrorMessage))
  /\ pc' = "done"
  /\ UNCHANGED <<argv, fs, programs, cursor, commands, chunks, raised, assembled,
                 out_asm>>
  /\ UNCHANGED notMain

\* except VMError as error: print error.message
MainExceptVMError ==
  /\ pc = "raised"
  /\ raised.type = "VMError"
  /\ stdout' = Append(stdout, Printed("VMError", raised.message))
  /\ pc' = "done"
  /\ UNCHANGED <<argv, fs, programs, cursor, commands, chunks, raised, assembled,
                 out_asm>>
  /\ UNCHANGED notMain

\* a ValueError is caught nowhere: main ends with the exception
MainUncaught ==
  /\ pc = "raised"
  /\ raised.type = "ValueError"
  /\ pc' = "crashed"
  /\ UNCHANGED <<argv, fs, programs, cursor, commands, chunks, raised, assembled,
                 stdout, out_asm>>
  /\ UNCHANGED notMain

MainNext ==
  \/ MainUsage
  \/ MainReadFile
  \/ MainListDir
  \/ MainReadDirEntry
  \/ MainListDirDone
  \/ MainNoPath
  \/ ParseProgramMap
  \/ ParseProgramValueError
  \/ ParseProgramRaise
  \/ AssembleProgramGenerate
  \/ AssembleProgramReturn
  \/ MainWrite
  \/ MainWriteFails
  \/ MainExceptVMError
  \/ MainUncaught

MainIdle ==
  /\ argv = <<>> /\ fs = <<>> /\ programs = <<>> /\ pc = "idle" /\ cursor = 0
  /\ commands = <<>> /\ chunks = <<>> /\ raised = NoException
  /\ assembled = <<>> /\ stdout = <<>> /\ out_asm = NoFile

-----------------------------------------------------------------------------
(* LinkPrograms called on a list of programs: the file Main, written from  *)
(* lines that define procedures and labels and jump to them, before the    *)
(* file Lib.                                                               *)

MaxScopeLines == 4

ScopeLines ==
  {"function f 0\n", "function g 0\n", "label L\n", "goto L\n", "if-goto L\n"}

\* programs with generated labels, names the parser accepts by their first
\* character, a malformed line, a line on which int raises
LabelPrograms ==
  {<<"function Main$1 0\n", "eq\n", "label end\n">>,
   <<"function f 0\n", "call f 0\n", "label f\n", "lt\n">>,
   <<"function DEFAULT_FUNCTION 0\n", "label L\n">>,
   <<"label 1L\n", "goto L\n">>,
   <<"call f 1x\n">>}

LibContents == {<<>>, <<"label L\n", "gt\n">>}

LinkInputs ==
  {<<<<"Main", main_lines>>, <<"Lib", lib_lines>>>> :
     main_lines \in SeqsUpTo(ScopeLines, MaxScopeLines) \cup LabelPrograms,
     lib_lines \in LibContents}

LinkInit ==
  /\ programs \in LinkInputs
  /\ pc = "link"
  /\ cursor = 1
  /\ argv = <<>> /\ fs = <<>>
  /\ commands = <<>> /\ chunks = <<>> /\ raised = NoException
  /\ assembled = <<>> /\ stdout = <<>> /\ out_asm = NoFile

LinkNext ==
  \/ ParseProgramMap
  \/ ParseProgramValueError
  \/ ParseProgramRaise
  \/ AssembleProgramGenerate
  \/ AssembleProgramReturn

-----------------------------------------------------------------------------
(* The parser run: ParseCommand applied to one line.  The line is built    *)
(* from tokens (free of whitespace and of the comment marker), leading     *)
(* whitespace, a separator and a tail of whitespace or comment, and the    *)
(* pieces are kept so that a result can be compared with what was written. *)

Pending == [type |-> "pending"]

NameTokens == {"loop", "Main.f", "_a.b:c", "L1", "a$b", "x-1", "1a", "$a"}

NumberTokens == {"0", "13", "007", "1x", "x", "-1"}

OneToken ==
  {<<k>> : k \in {"add", "sub", "neg", "eq", "gt", "lt", "and", "or", "not",
                  "return", "push", "label", "foo"}}

TwoTokens ==
  {<<k, a>> : k \in {"label", "goto", "if-goto", "function", "push", "add"},
              a \in NameTokens}

ThreeTokens ==
  {<<k, a, n>> : k \in {"push", "pop", "function", "call", "label"},
                 a \in SegmentNameSet \cup {"foo", "Main.f", "a$b", "x-1", "1a"},
                 n \in NumberTokens}

FourTokens ==
  {<<k, a, "1", x>> : k \in {"push", "pop", "call"}, a \in {"local", "constant"},
                      x \in {"2", "x"}}

TokenLists == {<<>>} \cup OneToken \cup TwoTokens \cup ThreeTokens \cup FourTokens

RECURSIVE Join(_, _)
Join(toks, sep) ==
  IF Len(toks) = 0 THEN ""
  ELSE IF Len(toks) = 1 THEN toks[1]
  ELSE toks[1] \o sep \o Join(Tail(toks), sep)

ParseInputs ==
  [toks : TokenLists, pre : {"", "   "}, sep : {" ", " \t"},
   post : {"", "\n", "  //I like pie!", "//push local 1"}]

ParseIdle == pieces = <<>> /\ line = "" /\ result = Pending

ParseInit ==
  /\ pieces \in ParseInputs
  /\ line = pieces.pre \o Join(pieces.toks, pieces.sep) \o pieces.post
  /\ result = Pending

\* result = HackParser.ParseCommand(line)
CallParseCommand ==
  /\ result = Pending
  /\ result' = ParseCommand(line)
  /\ UNCHANGED <<pieces, line>>
  /\ UNCHANGED notParse

ParseNext == CallParseCommand

-----------------------------------------------------------------------------
(* Execution of the generated assembly on the Hack computer: 16-bit words, *)
(* registers A and D, M the memory cell addressed by A, "@x" loading A,    *)
(* "dest=comp;jump" computing, storing and jumping, "(label)" naming the   *)
(* address of the next instruction.                                        *)

Word == 2^16

\* where the bootstrap code puts the stack
StackBase == 256

MaxStack == 16

MaxStatics == 2

\* the modelled cells: the registers RAM[0..15], the first cells the
\* assembler gives to variables, and the stack
RamAddresses ==
  0..(SEGMENT_MAPPING["static"] + MaxStatics - 1)
    \cup StackBase..(StackBase + MaxStack - 1)

IsLabelLine(l) == Char(l, 1) = "("

\* the labels an assembly text defines: the text between the parentheses of
\* its "(label)" lines
DefinedLabels(asm) ==
  {SubSeq(asm[i], 2, Len(asm[i]) - 1) :
     i \in {j \in 1..Len(asm) : IsLabelLine(asm[j])}}

\* the assembly without its label lines: what is loaded into the ROM
Instructions(asm) == SelectSeq(asm, LAMBDA l : ~IsLabelLine(l))

\* the ROM address a label line at index i stands for
LabelAddress(asm, i) == Cardinality({j \in 1..(i - 1) : ~IsLabelLine(asm[j])})

\* the "@symbol" lines whose symbol is a variable: no number, not SP, no
\* label of the assembly
IsVariableLine(asm, l) ==
  /\ Char(l, 1) = "@"
  /\ ~IsDigit(Tail(l))
  /\ Tail(l) # "SP"
  /\ Tail(l) \notin DefinedLabels(asm)

\* variables get the cells from 16 on, in the order of their first use
VariableAddress(asm, symbol) ==
  LET first == CHOOSE i \in 1..Len(asm) :
                 /\ asm[i] = "@" \o symbol
                 /\ \A j \in 1..(i - 1) : asm[j] # asm[i]
  IN  SEGMENT_MAPPING["static"]
        + Cardinality({asm[j] : j \in {k \in 1..(first - 1) :
                                         IsVariableLine(asm, asm[k])}})

VariableSymbols(asm) ==
  {Tail(asm[i]) : i \in {j \in 1..Len(asm) : IsVariableLine(asm, asm[j])}}

SymbolTable(asm) ==
  [symbol \in DefinedLabels(asm) \cup VariableSymbols(asm) |->
     IF symbol \in DefinedLabels(asm)
     THEN LabelAddress(asm, CHOOSE i \in 1..Len(asm) :
                              asm[i] = "(" \o symbol \o ")")
     ELSE VariableAddress(asm, symbol)]

Contains(s, ch) == \E i \in 1..Len(s) : Char(s, i) = ch

IndexOf(s, ch) ==
  IF Contains(s, ch) THEN CHOOSE i \in 1..Len(s) : Char(s, i) = ch ELSE 0

\* the three fields of "dest=comp;jump"
Dest(instruction) == SubSeq(instruction, 1, IndexOf(instruction, "=") - 1)

Comp(instruction) ==
  SubSeq(instruction, IndexOf(instruction, "=") + 1,
         IF Contains(instruction, ";") THEN IndexOf(instruction, ";") - 1
         ELSE Len(instruction))

Jump(instruction) ==
  IF Contains(instruction, ";")
  THEN SubSeq(instruction, IndexOf(instruction, ";") + 1, Len(instruction))
  ELSE ""

UsesM(instruction) ==
  Contains(Dest(instruction), "M") \/ Contains(Comp(instruction), "M")

RECURSIVE BitAnd(_, _, _)
BitAnd(x, y, bits) ==
  IF bits = 0 THEN 0
  ELSE (x % 2) * (y % 2) + 2 * BitAnd(x \div 2, y \div 2, bits - 1)

BitNot(x) == Word - 1 - x

BitOr(x, y) == BitNot(BitAnd(BitNot(x), BitNot(y), 16))

\* the value of one operand of a computation
Operand(ch, a, d, m) ==
  CASE ch = "A" -> a
    [] ch = "D" -> d
    [] ch = "M" -> m
    [] ch = "0" -> 0
    [] ch = "1" -> 1

\* the 16-bit value of the comp field
CompValue(comp, a, d, m) ==
  IF Len(comp) = 1 THEN Operand(comp, a, d, m)
  ELSE IF Len(comp) = 2
  THEN LET x == Operand(Char(comp, 2), a, d, m)
       IN  IF Char(comp, 1) = "!" THEN BitNot(x) ELSE (Word - x) % Word
  ELSE LET x == Operand(Char(comp, 1), a, d, m)
           y == Operand(Char(comp, 3), a, d, m)
           op == Char(comp, 2)
       IN  CASE op = "+" -> (x + y) % Word
             [] op = "-" -> (x + Word - y) % Word
             [] op = "&" -> BitAnd(x, y, 16)
             [] op = "|" -> BitOr(x, y)

\* a word read as a two's complement number
Signed(v) == IF v >= Word \div 2 THEN v - Word ELSE v

JumpTaken(jump, v) ==
  CASE jump = "JMP" -> TRUE
    [] jump = "JEQ" -> Signed(v) = 0
    [] jump = "JNE" -> Signed(v) # 0
    [] jump = "JGT" -> Signed(v) > 0
    [] jump = "JGE" -> Signed(v) >= 0
    [] jump = "JLT" -> Signed(v) < 0
    [] jump = "JLE" -> Signed(v) <= 0

\* what "@symbol" loads: a number, the stack pointer's address or a label's
Resolvable(symbol) ==
  IsDigit(symbol) \/ symbol = "SP" \/ symbol \in DOMAIN cpu_symbols

AValue(symbol) ==
  IF IsDigit(symbol) THEN DecimalValue(symbol)
  ELSE IF symbol = "SP" THEN SEGMENT_MAPPING["sp"]
  ELSE cpu_symbols[symbol]

Running == cpu_stage = "loaded" /\ cpu_reg.PC < Len(cpu_rom)

Current == cpu_rom[cpu_reg.PC + 1]

IsAInstruction(instruction) == Char(instruction, 1) = "@"

\* the cell M is in the modelled memory whenever the instruction uses it
InMemory(instruction) ==
  UsesM(instruction) => cpu_reg.A \in RamAddresses

\* the registers and the memory after Current, a "dest=comp;jump"
Computed ==
  LET a == cpu_reg.A
      d == cpu_reg.D
      m == IF a \in RamAddresses THEN cpu_ram[a] ELSE 0
      v == CompValue(Comp(Current), a, d, m)
      dest == Dest(Current)
  IN  [A |-> IF Contains(dest, "A") THEN v ELSE a,
       D |-> IF Contains(dest, "D") THEN v ELSE d,
       M |-> IF Contains(dest, "M") THEN v ELSE m,
       PC |-> IF Jump(Current) # "" /\ JumpTaken(Jump(Current), v)
              THEN a ELSE cpu_reg.PC + 1]

\* "@symbol"
StepAInstruction ==
  /\ Running
  /\ IsAInstruction(Current)
  /\ Resolvable(Tail(Current))
  /\ cpu_reg' = [cpu_reg EXCEPT !.A = AValue(Tail(Current)), !.PC = @ + 1]
  /\ UNCHANGED <<cpu_in, cpu_stage, cpu_commands, cpu_chunks, cpu_rom,
                 cpu_symbols, cpu_ram>>
  /\ UNCHANGED notCpu

StoreComputed ==
  /\ cpu_reg' = [A |-> Computed.A, D |-> Computed.D, PC |-> Computed.PC]
  /\ cpu_ram' = IF Contains(Dest(Current), "M")
                THEN [cpu_ram EXCEPT ![cpu_reg.A] = Computed.M]
                ELSE cpu_ram
  /\ UNCHANGED <<cpu_in, cpu_stage, cpu_commands, cpu_chunks, cpu_rom,
                 cpu_symbols>>
  /\ UNCHANGED notCpu

\* "dest=comp"
StepCompute ==
  /\ Running
  /\ ~IsAInstruction(Current)
  /\ Jump(Current) = ""
  /\ InMemory(Current)
  /\ StoreComputed

\* "comp;jump"
StepJump ==
  /\ Running
  /\ ~IsAInstruction(Current)
  /\ Jump(Current) # ""
  /\ InMemory(Current)
  /\ StoreComputed

(* The executions: the VM lines of one file "Main", translated by the      *)
(* pipeline, run from the code of one of the lines until the program       *)
(* counter leaves the end of the ROM.                                      *)

MaxArguments == 2

MaxLocals == 2

Samples == {0, 1, 2, 255, 21845, 43690, 32767, 32768, 65534, 65535}

\* RAM[0] the stack pointer, RAM[1..4] the base pointers, the stack
Memory(pointers, stack) ==
  [a \in RamAddresses |->
     IF a = 0 THEN StackBase + Len(stack)
     ELSE IF a \in 1..4 THEN pointers[a]
     ELSE IF a >= StackBase /\ a - StackBase < Len(stack)
     THEN stack[a - StackBase + 1]
     ELSE 0]

PointerChoices == {<<300, 400, 3000, 4000>>, <<65535, 0, 32768, 1>>}

\* add, sub, and, or on x (second from top) and y (top)
BinaryRuns ==
  {[kind |-> "binary", lines |-> <<op>>, from |-> 1, arguments |-> 0, locals |-> 0,
    ram |-> Memory(<<300, 400, 3000, 4000>>, below \o <<x, y>>)] :
     op \in {"add", "sub", "and", "or"}, x \in Samples, y \in Samples,
     below \in {<<>>, <<4660, 65535>>}}

\* bodies that leave one value on the stack
Bodies ==
  {<<"push constant 7">>,
   <<"push constant 9", "pop pointer 0", "push constant 8", "pop pointer 1",
     "push pointer 1">>,
   <<"push argument 0", "push local 0", "add">>,
   <<"push constant 2", "push constant 3", "lt">>}

\* the arguments 101, 102, .. above one cell of the caller
Arguments(n) == [i \in 1..n |-> 100 + i]

\* function f k, a body, return, and the call f n the run starts from
CallRuns ==
  {[kind |-> "call",
    lines |-> <<"function f " \o ToString(k)>> \o body
                \o <<"return", "call f " \o ToString(n)>>,
    from |-> Len(body) + 3, arguments |-> n, locals |-> k,
    ram |-> Memory(pointers, <<11>> \o Arguments(n))] :
     n \in 0..MaxArguments, k \in 0..MaxLocals, body \in Bodies,
     pointers \in PointerChoices}

\* eq, gt, lt on x (second from top) and y (top)
ComparisonRuns ==
  {[kind |-> "comparison", lines |-> <<op>>, from |-> 1, arguments |-> 0, locals |-> 0,
    ram |-> Memory(<<300, 400, 3000, 4000>>, below \o <<x, y>>)] :
     op \in {"eq", "gt", "lt"}, x \in Samples, y \in Samples,
     below \in {<<>>, <<4660>>}}

MaxIndex == 2

\* base pointers that address the low cells: one another, the scratch cells,
\* the stack pointer
LowPointers ==
  {<<8, 9, 10, 11>>, <<1, 2, 3, 4>>, <<13, 13, 12, 14>>, <<0, 14, 5, 6>>}

\* the segments and indices of the transfers: every segment but constant
\* with a small index, temp and pointer also with indices past their cells
Transfers ==
  ((SegmentNameSet \ {"constant"}) \X (0..MaxIndex))
    \cup ({"temp", "pointer"} \X {8, 9, 10})

\* pop seg i and then push seg i, with v on top of the stack
TransferRuns ==
  {[kind |-> "transfer",
    lines |-> <<"pop " \o t[1] \o " " \o ToString(t[2]),
                "push " \o t[1] \o " " \o ToString(t[2])>>,
    from |-> 1, arguments |-> 0, locals |-> 0,
    ram |-> Memory(pointers, <<4660, v>>)] :
     t \in Transfers, pointers \in LowPointers, v \in {0, 7, 65535}}

Runs == BinaryRuns \cup CallRuns \cup ComparisonRuns \cup TransferRuns

CpuIdle ==
  /\ cpu_in = <<>> /\ cpu_stage = "idle" /\ cpu_commands = <<>>
  /\ cpu_chunks = <<>> /\ cpu_rom = <<>> /\ cpu_symbols = <<>>
  /\ cpu_reg = <<>> /\ cpu_ram = <<>>

CpuInit ==
  /\ cpu_in \in Runs
  /\ cpu_stage = "source"
  /\ cpu_commands = <<>> /\ cpu_chunks = <<>> /\ cpu_rom = <<>>
  /\ cpu_symbols = <<>> /\ cpu_reg = <<>> /\ cpu_ram = <<>>

\* map(HackParser.ParseCommand, program_lines) of ParseProgram
CpuParseProgram ==
  /\ cpu_stage = "source"
  /\ cpu_commands' = MapParseCommand(cpu_in.lines)
  /\ cpu_stage' = "parsed"
  /\ UNCHANGED <<cpu_in, cpu_chunks, cpu_rom, cpu_symbols, cpu_reg, cpu_ram>>
  /\ UNCHANGED notCpu

\* GenerateAsm(DecorateCommands(program_commands, program_name))
CpuGenerateAsm ==
  /\ cpu_stage = "parsed"
  /\ cpu_chunks' = GenerateAsm(DecorateCommands(cpu_commands, "Main"))
  /\ cpu_stage' = "generated"
  /\ UNCHANGED <<cpu_in, cpu_commands, cpu_rom, cpu_symbols, cpu_reg, cpu_ram>>
  /\ UNCHANGED notCpu

\* the ROM address of the first instruction of line j
CodeAddress(j) == Len(Instructions(FlattenAsm(SubSeq(cpu_chunks, 1, j - 1))))

\* the ROM address of the first instruction of line cpu_in.from
StartAddress == CodeAddress(cpu_in.from)

\* FlattenAsm, and the assembly loaded: labels resolved, the program counter
\* at the code of the line to run, the memory as given
CpuLoad ==
  /\ cpu_stage = "generated"
  /\ cpu_rom' = Instructions(FlattenAsm(cpu_chunks))
  /\ cpu_symbols' = SymbolTable(FlattenAsm(cpu_chunks))
  /\ cpu_reg' = [A |-> 0, D |-> 0, PC |-> StartAddress]
  /\ cpu_ram' = cpu_in.ram
  /\ cpu_stage' = "loaded"
  /\ UNCHANGED <<cpu_in, cpu_commands, cpu_chunks>>
  /\ UNCHANGED notCpu

CpuNext ==
  \/ CpuParseProgram
  \/ CpuGenerateAsm
  \/ CpuLoad
  \/ StepAInstruction
  \/ StepCompute
  \/ StepJump

-----------------------------------------------------------------------------
(* The generator run: HackCodeGenerator.GenerateAsm applied to one command *)

MaxPosition == 12

\* file names without their extension, as main derives them
FileNames == {"Foo", "Foo$1", "Foo$", "F", "F1", "Sys"}

GenCommands ==
  {SimpleCommand("EqCommand"), SimpleCommand("GtCommand"),
   SimpleCommand("LtCommand"), CallCommand("Sys.init", 0),
   CallCommand("Foo$1$branch", 2)}

GenInputs ==
  [command : GenCommands, name : FileNames,
   function_name : {"DEFAULT_FUNCTION", "Foo$1"},
   number : 0..MaxPosition \cup {BootstrapNumber}]

GenIdle == gen_in = <<>> /\ gen_out = <<>>

GenInit == gen_in \in GenInputs /\ gen_out = <<>>

\* HackCodeGenerator.GenerateAsm(command, name, function_name, number)
CallGenerateAsm ==
  /\ gen_out = <<>>
  /\ gen_out' = GenerateAsmCommand(gen_in.command, gen_in.name,
                                   gen_in.function_name, gen_in.number)
  /\ UNCHANGED gen_in
  /\ UNCHANGED notGen

GenNext == CallGenerateAsm

-----------------------------------------------------------------------------
(* The specifications                                                      *)

Init == MainInit /\ ParseIdle /\ GenIdle /\ CpuIdle

Next == MainNext

\* one run of main
Spec == Init /\ [][Next]_vars

InitParse == ParseInit /\ MainIdle /\ GenIdle /\ CpuIdle

\* one call of HackParser.ParseCommand
SpecParse == InitParse /\ [][ParseNext]_vars

InitGen == GenInit /\ MainIdle /\ ParseIdle /\ CpuIdle

\* one call of HackCodeGenerator.GenerateAsm
SpecGen == InitGen /\ [][GenNext]_vars

InitCpu == CpuInit /\ MainIdle /\ ParseIdle /\ GenIdle

InitLink == LinkInit /\ ParseIdle /\ GenIdle /\ CpuIdle

\* one call of LinkPrograms
SpecLink == InitLink /\ [][LinkNext]_vars

\* one execution of generated assembly on the Hack computer
SpecCpu == InitCpu /\ [][CpuNext]_vars

-----------------------------------------------------------------------------
(* Claims about the parser                                                 *)

\* what ParseCommand may return: a command, the blank marker, the malformed marker
InstructionVariants == {COMMAND_PARSE_ORDER[i] : i \in 1..Len(COMMAND_PARSE_ORDER)}

\* the whole of s matches the label-identifier grammar [A-Za-z_.:][A-Za-z0-9_.:]*
MatchesLabelGrammar(s) ==
  /\ Len(s) > 0
  /\ Char(s, 1) \in LabelFirst
  /\ \A i \in 2..Len(s) : Char(s, i) \in LabelRest

\* C3: ParseCommand never fails: for every line it returns exactly one
\* instruction variant (a command, blank or malformed), and neither raises an
\* exception nor returns nothing.
C3_ParseCommandNeverFails ==
  result # Pending => result.type \in InstructionVariants

\* C4: a label, goto, if-goto, function or call line is accepted as that
\* instruction only when its whole name token matches the label-identifier
\* grammar; with a name token that holds a character outside the grammar the
\* line parses as malformed.
C4_NameMatchesWholeGrammar ==
  result # Pending =>
    /\ result.type \in {"LabelCommand", "GotoCommand", "IfGotoCommand"}
         => MatchesLabelGrammar(result.label_name)
    /\ result.type \in {"FunctionCommand", "CallCommand"}
         => MatchesLabelGrammar(result.function_name)
    /\ ( /\ Len(pieces.toks) >= 2
         /\ pieces.toks[1] \in {"label", "goto", "if-goto", "function", "call"}
         /\ ~MatchesLabelGrammar(pieces.toks[2]) )
         => result.type = "ErrorCommand"

RecognizedSegments ==
  {"argument", "local", "static", "constant", "this", "that", "pointer", "temp"}

\* the line was written as three tokens: keyword, segment, integer literal
WrittenAsTransfer(keyword) ==
  /\ Len(pieces.toks) = 3
  /\ pieces.toks[1] = keyword
  /\ pieces.toks[2] \in RecognizedSegments
  /\ IsDigit(pieces.toks[3])

\* C8: a line parses as push(segment, index) exactly when it is written as
\* `push`, one of the eight segment names and a non-negative integer literal
\* (after comment and whitespace stripping); as pop(segment, index) under the
\* same shape with `pop` and a segment other than constant; a push or pop line
\* naming another segment, or `pop constant i`, parses as malformed.
C8_PushPopGrammar ==
  result # Pending =>
    /\ result.type = "PushCommand" <=> WrittenAsTransfer("push")
    /\ result.type = "PopCommand" <=>
         (WrittenAsTransfer("pop") /\ pieces.toks[2] # "constant")
    /\ result.type \in {"PushCommand", "PopCommand"} =>
         /\ result.segment = pieces.toks[2]
         /\ result.index = DecimalValue(pieces.toks[3])
    /\ ( /\ Len(pieces.toks) = 3
         /\ pieces.toks[1] \in {"push", "pop"}
         /\ \/ pieces.toks[2] \notin RecognizedSegments
            \/ pieces.toks[1] = "pop" /\ pieces.toks[2] = "constant" )
         => result.type = "ErrorCommand"

C8_Witness ==
  /\ result.type = "PopCommand"
  /\ result.segment = "local"
  /\ result.index = 13
  /\ pieces.post = "  //I like pie!"

C8_WitnessPopConstant ==
  /\ result.type = "ErrorCommand"
  /\ pieces.toks = <<"pop", "constant", "0">>

-----------------------------------------------------------------------------
(* Claims about assembling, linking and main                               *)

\* the program the map of LinkPrograms is at
CurrentName == programs[cursor][1]

CurrentLines == programs[cursor][2]

\* the 1-based numbers of the lines of a program that parse as malformed
MalformedLines(program_lines) ==
  {i \in 1..Len(program_lines) :
     ParseCommand(program_lines[i]).type = "ErrorCommand"}

\* the j-th smallest element of a set of numbers
Nth(S, j) == CHOOSE k \in S : Cardinality({m \in S : m < k}) = j - 1

StartsWith(s, prefix) ==
  Len(s) >= Len(prefix) /\ SubSeq(s, 1, Len(prefix)) = prefix

\* C2: assembling one program fails if and only if at least one of its lines
\* parses as malformed; the error then carries one diagnostic entry per
\* malformed line, in line order, each naming the program and the 1-based
\* line number, and no assembly is produced for the program.
C2_AssemblyFailsIffMalformed ==
  /\ pc = "raised" =>
       LET bad == MalformedLines(CurrentLines)
       IN  /\ bad # {}
           /\ Len(raised.errors) = Cardinality(bad)
           /\ \A j \in 1..Cardinality(bad) :
                StartsWith(raised.errors[j],
                           CurrentName \o "." \o ToString(Nth(bad, j)) \o ": ")
           /\ Len(assembled) = cursor - 1
  /\ pc = "generated" => MalformedLines(CurrentLines) = {}

\* C5: linking isolates programs: when a program of the input has a malformed
\* line, every other program of the input is still assembled (parsed and
\* checked), and the link ends in failure.
C5_LinkIsolatesPrograms ==
  (pc = "raised" /\ raised.type = "VMError") =>
     /\ cursor = Len(programs)
     /\ ~out_asm.written

ReadFailed == \E i \in 1..Len(stdout) : stdout[i].from = "IOError on read"

AssemblyFailed == raised.type = "VMError"

\* C10: the output file is written only on success: when reading an input
\* file fails with an I/O error, or assembly fails with a malformed-instruction
\* error, the failure message is printed and no output file is written; with
\* no argument or more than one, the usage is printed and nothing else is done.
C10_OutputOnlyOnSuccess ==
  pc \in {"done", "crashed"} =>
    /\ (ReadFailed \/ AssemblyFailed) =>
         /\ ~out_asm.written
         /\ Len(stdout) > 0
    /\ AssemblyFailed => stdout[Len(stdout)] = Printed("VMError", raised.message)
    /\ Len(argv) # 2 =>
         /\ stdout = <<Printed("usage", Usage)>>
         /\ programs = <<>> /\ assembled = <<>> /\ ~out_asm.written

\* a line that is a command or blank: ParseCommand gives an instruction other
\* than the malformed marker
WellFormedLine(text) ==
  ParseCommand(text).type \in InstructionVariants \ {"ErrorCommand"}

WellFormedPrograms ==
  \A p \in 1..Len(programs) : \A i \in 1..Len(programs[p][2]) :
    WellFormedLine(programs[p][2][i])

\* the enclosing function of line i of a program: the name of the last
\* function command among lines 1..i
EnclosingFunction(program_lines, i) ==
  LET defs == {j \in 1..i : ParseCommand(program_lines[j]).type = "FunctionCommand"}
  IN  IF defs = {} THEN "DEFAULT_FUNCTION"
      ELSE ParseCommand(program_lines[CHOOSE j \in defs : \A k \in defs : k <= j])
             .function_name

\* the code of line i of program p: nothing for a blank line, else the code
\* generated for its instruction at position i - 1 of its file
LineCode(p, i) ==
  LET program_lines == programs[p][2]
  IN  IF TrimProgramLine(program_lines[i]) = "" THEN <<>>
      ELSE GenerateAsmCommand(ParseCommand(program_lines[i]), programs[p][1],
                              EnclosingFunction(program_lines, i), i - 1)

\* the code of programs 1..p-1 and of lines 1..i of program p, in that order
RECURSIVE CodeUpTo(_, _)
CodeUpTo(p, i) ==
  IF p = 0 THEN <<>>
  ELSE IF i = 0 THEN CodeUpTo(p - 1, IF p = 1 THEN 0 ELSE Len(programs[p - 1][2]))
  ELSE CodeUpTo(p, i - 1) \o LineCode(p, i)

ExpectedLink ==
  IF Len(programs) = 0 THEN <<>>
  ELSE CodeUpTo(Len(programs), Len(programs[Len(programs)][2]))

\* C6: for programs with no malformed line the linked output is the bootstrap
\* sequence (when attached) followed by the code generated for each
\* instruction, in program order and line order: nothing lost, duplicated,
\* merged or reordered, and no assembly line for a blank line.
C6_LinkPreservesOrder ==
  /\ WellFormedPrograms => pc # "raised"
  /\ (pc = "link" /\ cursor > Len(programs)) => LinkPrograms = ExpectedLink
  /\ out_asm.written => out_asm.text = GenerateBootstrapAsm \o ExpectedLink

C6_Witness ==
  /\ out_asm.written
  /\ Len(programs) = 2
  /\ programs[1][1] = "Bar"
  /\ programs[1][2] = <<"lt\n", "\n", "call Bar.f 0\n", "gt\n">>
  /\ programs[2][2] = <<"  // only a comment\n", "eq\n">>
  /\ Len(out_asm.text) > Len(GenerateBootstrapAsm)

-----------------------------------------------------------------------------
(* Claims about generated labels                                           *)

IsComparison(command) == command.type \in {"EqCommand", "GtCommand", "LtCommand"}

\* the comparison and call occurrences the run's occurrence is compared with
OtherOccurrences ==
  [command : {SimpleCommand("GtCommand"), CallCommand("g", 1)},
   name : FileNames, function_name : {"f"},
   number : 0..MaxPosition \cup {BootstrapNumber}]

\* C7: the labels generated for a comparison (branch and end) and for a call
\* (return address) depend only on the file name and the position: the same
\* (file name, position) gives the same labels, and occurrences at different
\* (file name, position) pairs, of files with distinct names, define no
\* common label.
C7_LabelsFromFileAndPosition ==
  gen_out # <<>> =>
    \A o \in OtherOccurrences :
      LET other == GenerateAsmCommand(o.command, o.name, o.function_name, o.number)
      IN  /\ ( /\ o.name = gen_in.name
               /\ o.number = gen_in.number
               /\ IsComparison(o.command) = IsComparison(gen_in.command) )
               => DefinedLabels(other) = DefinedLabels(gen_out)
          /\ <<o.name, o.number>> # <<gen_in.name, gen_in.number>>
               => DefinedLabels(other) \cap DefinedLabels(gen_out) = {}

C7_Witness ==
  /\ gen_in.command.type = "EqCommand"
  /\ gen_in.name = "F1"
  /\ gen_in.number = 2
  /\ DefinedLabels(gen_out) = {"F1$2$branch", "F1$2$end"}

-----------------------------------------------------------------------------
(* Claims about the generated code when it runs                            *)

\* the run has left the end of the ROM: for a binary command after its last
\* instruction, for a call at its return address
Halted == cpu_stage = "loaded" /\ cpu_reg.PC = Len(cpu_rom)

\* a loaded run is over or its next instruction can be carried out on the
\* modelled memory
RunsOn ==
  cpu_stage = "loaded" =>
    \/ Halted
    \/ /\ Running
       /\ IF IsAInstruction(Current) THEN Resolvable(Tail(Current))
          ELSE InMemory(Current)

\* bit i of a word
Bit(v, i) == (v \div 2^i) % 2

\* top is x op y on 16 bits, for the command written as keyword
IsResultOf(keyword, x, y, top) ==
  /\ top \in 0..(Word - 1)
  /\ CASE keyword = "add" -> \E q \in 0..1 : top + q * Word = x + y
       [] keyword = "sub" -> \E q \in 0..1 : top = x - y + q * Word
       [] keyword = "and" -> \A i \in 0..15 : Bit(top, i) = 1 <=> (Bit(x, i) = 1 /\ Bit(y, i) = 1)
       [] keyword = "or" -> \A i \in 0..15 : Bit(top, i) = 1 <=> (Bit(x, i) = 1 \/ Bit(y, i) = 1)

\* C9: for 16-bit x (second from top) and y (top), the code generated for
\* add, sub, and, or leaves the stack pointer one lower, leaves every stack
\* cell below the operands unchanged, and leaves as the new top x+y, x-y
\* (second minus top), x&y and x|y, computed modulo 2^16.
C9_BinaryCommands ==
  (cpu_in # <<>> /\ cpu_in.kind = "binary") =>
    /\ RunsOn
    /\ Halted =>
         LET sp == cpu_in.ram[0]
         IN  /\ cpu_ram[0] = sp - 1
             /\ \A a \in StackBase..(sp - 3) : cpu_ram[a] = cpu_in.ram[a]
             /\ IsResultOf(cpu_in.lines[1], cpu_in.ram[sp - 2],
                           cpu_in.ram[sp - 1], cpu_ram[sp - 2])

\* sub has run on x = 1 under y = 2 above two other cells
C9_Witness ==
  /\ Halted
  /\ cpu_in.kind = "binary"
  /\ cpu_in.lines = <<"sub">>
  /\ cpu_in.ram[0] = StackBase + 4
  /\ cpu_in.ram[StackBase + 2] = 1
  /\ cpu_in.ram[StackBase + 3] = 2
  /\ cpu_ram[StackBase + 2] = 65535

PointersRestored == \A i \in 1..4 : cpu_ram[i] = cpu_in.ram[i]

\* C1 as stated: after call f n, function f k, a body that leaves one value
\* and return, the stack pointer is one slot higher than before the call and
\* RAM[1..4] are as before the call.
C1_CallReturnBalance ==
  (cpu_in # <<>> /\ cpu_in.kind = "call" /\ Halted) =>
    /\ cpu_ram[0] = cpu_in.ram[0] + 1
    /\ PointersRestored

\* C1, amended: after call f n, function f k, a body that leaves one value
\* and return, the stack pointer is its value before the call minus n plus
\* one (the n arguments are replaced by the result, which lies where the
\* first argument was), and RAM[1..4] are as before the call.
C1_CallReturnReplacesArguments ==
  (cpu_in # <<>> /\ cpu_in.kind = "call") =>
    /\ RunsOn
    /\ Halted =>
         /\ cpu_ram[0] = cpu_in.ram[0] - cpu_in.arguments + 1
         /\ cpu_reg.PC = cpu_symbols["Main$" \o ToString(cpu_in.from - 1)
                                       \o "$return-address"]
         /\ PointersRestored

\* a call with two arguments and two locals has returned from a body that
\* changed THIS and THAT
C1_Witness ==
  /\ Halted
  /\ cpu_in.kind = "call"
  /\ cpu_in.arguments = 2
  /\ cpu_in.lines[1] = "function f 2"
  /\ cpu_in.lines[3] = "pop pointer 0"
  /\ cpu_in.ram[3] = 3000
  /\ cpu_ram[3] = 3000
  /\ cpu_ram[0] = cpu_in.ram[0] - 1

\* x op y on the two's complement numbers the words x and y stand for
Compares(keyword, x, y) ==
  CASE keyword = "eq" -> Signed(x) = Signed(y)
    [] keyword = "gt" -> Signed(x) > Signed(y)
    [] keyword = "lt" -> Signed(x) < Signed(y)

\* C11: for signed 16-bit x (second from top) and y (top), the code generated
\* for eq, gt and lt replaces the two operands by one value, all-ones when
\* x = y, x > y, x < y respectively holds and all-zeros otherwise, with the
\* stack pointer one lower than before.
C11_Comparisons ==
  (cpu_in # <<>> /\ cpu_in.kind = "comparison" /\ Halted) =>
    LET sp == cpu_in.ram[0]
    IN  /\ cpu_ram[0] = sp - 1
        /\ cpu_ram[sp - 2] =
             IF Compares(cpu_in.lines[1], cpu_in.ram[sp - 2], cpu_in.ram[sp - 1])
             THEN Word - 1 ELSE 0

\* the part of C11 the code keeps: the verdict is right whenever y - x does
\* not leave the signed 16-bit range, and eq is right for every pair
C11_ComparisonsWithoutOverflow ==
  (cpu_in # <<>> /\ cpu_in.kind = "comparison") =>
    /\ RunsOn
    /\ Halted =>
         LET sp == cpu_in.ram[0]
             x == cpu_in.ram[sp - 2]
             y == cpu_in.ram[sp - 1]
         IN  /\ cpu_ram[0] = sp - 1
             /\ cpu_ram[sp - 2] \in {0, Word - 1}
             /\ ( \/ cpu_in.lines[1] = "eq"
                  \/ Signed(y) - Signed(x) \in -(Word \div 2)..(Word \div 2 - 1) )
                  => (cpu_ram[sp - 2] = Word - 1
                        <=> Compares(cpu_in.lines[1], x, y))

\* the address of the label the run's call defines after its jump
ReturnAddress ==
  cpu_symbols["Main$" \o ToString(cpu_in.from - 1) \o "$return-address"]

\* the run is at the first instruction of the code of return
AtReturn ==
  /\ cpu_stage = "loaded"
  /\ cpu_reg.PC = CodeAddress(cpu_in.from - 1)

\* C12: for every argument count n, also n = 0 where the result slot is the
\* cell that holds the saved return address, the code of return jumps to the
\* return address the call pushed, stores the callee's top-of-stack value in
\* the cell the callee's ARG addresses, and sets the stack pointer to that
\* cell's address plus one.  When return starts, the cell under the frame
\* holds the call's return address, ARG is the address of the first argument
\* and the top of the stack is the cell above the locals; when it is over the
\* run is at the return address, the ARG cell holds what that top cell holds
\* and SP is one above the ARG cell.
C12_ReturnToCaller ==
  (cpu_in # <<>> /\ cpu_in.kind = "call") =>
    LET sp == cpu_in.ram[0]
        arg == sp - cpu_in.arguments
        top == sp + 5 + cpu_in.locals
    IN  /\ RunsOn
        /\ AtReturn =>
             /\ cpu_ram[sp] = ReturnAddress
             /\ cpu_ram[SEGMENT_MAPPING["argument"]] = arg
             /\ cpu_ram[SEGMENT_MAPPING["sp"]] = top + 1
        /\ Halted =>
             /\ cpu_reg.PC = ReturnAddress
             /\ cpu_ram[arg] = cpu_ram[top]
             /\ cpu_ram[SEGMENT_MAPPING["sp"]] = arg + 1

\* a call without arguments has returned 7 into the cell that held the
\* return address
C12_Witness ==
  /\ Halted
  /\ cpu_in.kind = "call"
  /\ cpu_in.arguments = 0
  /\ cpu_in.lines[2] = "push constant 7"
  /\ cpu_reg.PC = ReturnAddress
  /\ cpu_ram[cpu_in.ram[0]] = 7
  /\ cpu_ram[0] = cpu_in.ram[0] + 1

\* the segment and the index a transfer run is about
RunSegment == cpu_commands[1].segment

RunIndex == cpu_commands[1].index

IndirectSegments == {"argument", "local", "this", "that"}

\* the cell pop seg i addresses, from the memory before the pop
AddressedCell ==
  IF RunSegment = "temp" THEN 5 + RunIndex
  ELSE IF RunSegment = "pointer" THEN 3 + RunIndex
  ELSE IF RunSegment = "static" THEN cpu_symbols["Main." \o ToString(RunIndex)]
  ELSE cpu_in.ram[SEGMENT_MAPPING[RunSegment]] + RunIndex

\* the addressed cell is neither the stack-pointer cell nor part of the stack
OffTheStack == AddressedCell # 0 /\ AddressedCell < StackBase

\* the pop has stored the old top and lowered SP when the push starts, and
\* the push has put the value back and restored SP when the run is over
RoundTrip ==
  LET sp == cpu_in.ram[0]
      v == cpu_in.ram[sp - 1]
  IN  /\ (cpu_stage = "loaded" /\ cpu_reg.PC = CodeAddress(2)) =>
           /\ cpu_ram[0] = sp - 1
           /\ cpu_ram[AddressedCell] = v
      /\ Halted =>
           /\ cpu_ram[0] = sp
           /\ cpu_ram[sp - 1] = v

\* C13 as stated: for every segment but constant and every index, when the
\* addressed cell is neither the stack-pointer cell nor part of the stack,
\* pop seg i lowers SP by one and stores the old top in the addressed cell,
\* and push seg i run next puts the same value back and restores SP.
C13_PopThenPush ==
  (cpu_in # <<>> /\ cpu_in.kind = "transfer" /\ cpu_stage = "loaded"
     /\ OffTheStack) => RoundTrip

\* C13, amended: the same, when for argument, local, this and that the
\* addressed cell is moreover not the base-pointer cell of the segment
\* itself (a pop into it moves the segment, so the push reads another cell).
C13_PopThenPushOffBase ==
  (cpu_in # <<>> /\ cpu_in.kind = "transfer" /\ cpu_stage = "loaded"
     /\ OffTheStack
     /\ (RunSegment \in IndirectSegments
           => AddressedCell # SEGMENT_MAPPING[RunSegment])) =>
    RunsOn /\ RoundTrip

\* pop that 2 into the scratch cell 13 and push that 2 have run
C13_Witness ==
  /\ Halted
  /\ cpu_in.kind = "transfer"
  /\ cpu_in.lines = <<"pop that 2", "push that 2">>
  /\ cpu_in.ram[4] = 11
  /\ cpu_in.ram[StackBase + 1] = 7
  /\ cpu_ram[13] = 7
  /\ cpu_ram[StackBase + 1] = 7
  /\ cpu_ram[0] = StackBase + 2

-----------------------------------------------------------------------------
(* Claims about label scopes                                               *)

\* the symbol a jumping chunk loads before its jump
JumpTarget(chunk) ==
  Tail(chunk[CHOOSE i \in 1..(Len(chunk) - 1) : Contains(chunk[i + 1], ";")])

\* the enclosing procedure of line i: the name written on the nearest
\* function line at or before it, or the default
EnclosingProcedure(program_lines, i) ==
  LET defs == {j \in 1..i :
                 Split(TrimProgramLine(program_lines[j]))[1] = "function"}
  IN  IF defs = {} THEN "DEFAULT_FUNCTION"
      ELSE Split(TrimProgramLine(
             program_lines[CHOOSE j \in defs : \A k \in defs : k <= j]))[2]

\* C14: in an assembled file every goto L and if-goto L jumps to the assembly
\* label that label L defines when both have the same enclosing procedure
\* (the nearest function at or before the line, or DEFAULT_FUNCTION), and
\* label L under two procedures with different names defines two different
\* assembly labels.
C14_JumpsReachScopedLabel ==
  pc = "generated" =>
    LET program_lines == programs[cursor][2]
        lines_of(types) == {i \in 1..Len(commands) : commands[i].type \in types}
    IN  /\ \A i \in lines_of({"GotoCommand", "IfGotoCommand"}) :
           \A j \in lines_of({"LabelCommand"}) :
             ( /\ commands[i].label_name = commands[j].label_name
               /\ EnclosingProcedure(program_lines, i)
                    = EnclosingProcedure(program_lines, j) )
               => DefinedLabels(chunks[j]) = {JumpTarget(chunks[i])}
        /\ \A i \in lines_of({"LabelCommand"}) :
           \A j \in lines_of({"LabelCommand"}) :
             ( /\ commands[i].label_name = commands[j].label_name
               /\ EnclosingProcedure(program_lines, i)
                    # EnclosingProcedure(program_lines, j) )
               => DefinedLabels(chunks[i]) \cap DefinedLabels(chunks[j]) = {}

\* label L outside any procedure and under f, and a goto L under f
C14_Witness ==
  /\ pc = "generated"
  /\ programs[cursor][2] = <<"label L\n", "function f 0\n", "label L\n", "goto L\n">>
  /\ chunks[1] = <<"(DEFAULT_FUNCTION$L)">>
  /\ chunks[3] = <<"(f$L)">>
  /\ JumpTarget(chunks[4]) = "f$L"

\* the scope of line i as the source shows it: the procedure of the nearest
\* function line at or before it, or the file when there is none
ScopeOf(program_name, program_lines, i) ==
  IF \E j \in 1..i : Split(TrimProgramLine(program_lines[j]))[1] = "function"
  THEN "procedure " \o EnclosingProcedure(program_lines, i)
  ELSE "file " \o program_name

\* the label-defining occurrences of line i, in the order their labels are
\* emitted: a user label, a define-procedure, the branch and the end label of
\* a comparison, the return address of a call
LineOccurrences(program_name, program_lines, i) ==
  LET command == ParseCommand(program_lines[i])
      occurrence(kind, name) ==
        [kind |-> kind, name |-> name, line |-> i,
         scope |-> ScopeOf(program_name, program_lines, i)]
  IN  CASE command.type = "LabelCommand" ->
             <<occurrence("label", command.label_name)>>
        [] command.type = "FunctionCommand" ->
             <<occurrence("function", command.function_name)>>
        [] command.type \in {"EqCommand", "GtCommand", "LtCommand"} ->
             <<occurrence("branch", ""), occurrence("end", "")>>
        [] command.type = "CallCommand" ->
             <<occurrence("return-address", "")>>
        [] OTHER -> <<>>

RECURSIVE OccurrencesUpTo(_, _, _)
OccurrencesUpTo(program_name, program_lines, i) ==
  IF i = 0 THEN <<>>
  ELSE OccurrencesUpTo(program_name, program_lines, i - 1)
         \o LineOccurrences(program_name, program_lines, i)

Occurrences(p) ==
  OccurrencesUpTo(programs[p][1], programs[p][2], Len(programs[p][2]))

\* the "(label)" lines of the assembly of program p, in order
EmittedLabels(p) == SelectSeq(assembled[p], IsLabelLine)

\* two occurrences that may share their label text: two user labels with the
\* same name in the same scope, or two define-procedures with the same name
MayCoincide(a, b) ==
  \/ a.kind = "label" /\ b.kind = "label" /\ a.name = b.name /\ a.scope = b.scope
  \/ a.kind = "function" /\ b.kind = "function" /\ a.name = b.name

\* C15: in a program linked from lines the parser accepts, two distinct
\* label-defining occurrences emit the same assembly label text only if they
\* are two user labels with the same name in the same scope (the same
\* procedure name, or the same file outside any procedure) or two
\* define-procedures with the same name.
C15_LabelsCoincideOnlyInScope ==
  (pc = "link" /\ cursor > Len(programs) /\ Len(programs) > 0) =>
    \A p \in 1..Len(programs), q \in 1..Len(programs) :
      /\ Len(EmittedLabels(p)) = Len(Occurrences(p))
      /\ \A k \in 1..Len(Occurrences(p)), m \in 1..Len(Occurrences(q)) :
           ( /\ <<p, k>> # <<q, m>>
             /\ EmittedLabels(p)[k] = EmittedLabels(q)[m] )
             => MayCoincide(Occurrences(p)[k], Occurrences(q)[m])

\* C15 within one file whose labels all lie inside procedures
C15_LabelsCoincideWithinProcedures ==
  (pc = "link" /\ cursor > Len(programs) /\ Len(programs) > 0) =>
    \A k \in 1..Len(Occurrences(1)), m \in 1..Len(Occurrences(1)) :
      ( /\ k # m
        /\ EmittedLabels(1)[k] = EmittedLabels(1)[m]
        /\ Occurrences(1)[k].scope # "file Main" )
        => MayCoincide(Occurrences(1)[k], Occurrences(1)[m])

\* the cells of the temp and of the pointer segment
SegmentCells(segment) == IF segment = "temp" THEN 5..12 ELSE 3..4

\* the run is about to carry out an instruction that reads or writes M
TouchesMemory ==
  cpu_stage = "loaded" /\ Running /\ ~IsAInstruction(Current) /\ UsesM(Current)

\* C16: the scratch cells 13 and 14 are never read or written by the code
\* generated for a push or pop on the temp or pointer segment, whatever its
\* index; such code only touches the stack (and its pointer) and the cells of
\* its own segment, temp 5..12 and pointer 3..4.
C16_DirectSegmentsKeepToTheirCells ==
  (cpu_in # <<>> /\ cpu_in.kind = "transfer" /\ TouchesMemory
     /\ RunSegment \in {"temp", "pointer"}) =>
    /\ cpu_reg.A \notin {13, 14}
    /\ cpu_reg.A \in {SEGMENT_MAPPING["sp"]} \cup SegmentCells(RunSegment)
                       \cup StackBase..(StackBase + MaxStack - 1)

\* the part of C16 about the scratch cells alone
C16_ScratchCellsUntouched ==
  (cpu_in # <<>> /\ cpu_in.kind = "transfer" /\ TouchesMemory
     /\ RunSegment \in {"temp", "pointer"}) => cpu_reg.A \notin {13, 14}

\* the part of C16 the code keeps: with an index inside the segment (temp
\* 0..7, pointer 0..1) only the stack and the segment's cells are touched
C16_InRangeIndicesKeepToTheirCells ==
  (cpu_in # <<>> /\ cpu_in.kind = "transfer" /\ TouchesMemory
     /\ RunSegment \in {"temp", "pointer"}
     /\ SEGMENT_MAPPING[RunSegment] + RunIndex \in SegmentCells(RunSegment)) =>
    cpu_reg.A \in {SEGMENT_MAPPING["sp"]} \cup SegmentCells(RunSegment)
                    \cup StackBase..(StackBase + MaxStack - 1)

=============================================================================
